---------------------------- MODULE Spec2Model ----------------------------
(***************************************************************************)
(* A model of the notes-to-quiz RAG pipeline (src/ingestion-pipline):      *)
(*   - QuizRunner (quiz_generator.py): the interactive quiz session,       *)
(*   - QuizGenerator (quiz_generator.py): parsing of the model's answer,   *)
(*     the mixed-quiz split,                                               *)
(*   - the retrieval entry points (retrival_chroma.py, quiz_generator.py,  *)
(*     history_aware_rag.py),                                              *)
(*   - ingestion into the persistent collection (ingest_chroma.py,         *)
(*     quiz_generator.py), its chunking and its batches,                   *)
(*   - the history-aware chat (history_aware_rag.py),                      *)
(*   - QuizApp (quiz_generator.py): the menu loop around all of it.        *)
(* Text is a sequence of one-character strings, so that strip(), lower()   *)
(* and upper() are computed and not assumed.                               *)
(***************************************************************************)
EXTENDS Integers, Sequences, FiniteSets, TLC

VARIABLES
    \* ---- QuizRunner (quiz_generator.py:365-522)
    current_score,      \* self.current_score
    total_questions,    \* self.total_questions
    quiz_history,       \* self.quiz_history
    pc,                 \* where run_quiz stands: "idle", "asking" (blocked in get_answer), "raised"
    err,                \* the exception that left run_quiz, "none" when there is none
    questions,          \* run_quiz's argument `questions`
    quiz_name,          \* run_quiz's argument `quiz_name`
    idx,                \* the loop variable i of run_quiz (1-based)
    last_input,         \* the text input() returned last inside get_answer (NoInput before the first)
    reprompted,         \* the question being asked has already refused an input
    graded,             \* is_correct of every check_answer call of this run, in order
    ret,                \* what the last run_quiz call returned
    printed,            \* the "Percentage: x.x%" show_final_results printed last, in tenths
    runs,               \* number of run_quiz calls so far
    \* ---- QuizGenerator (quiz_generator.py:125-359)
    quiz_store,         \* the persisted store of PERSIST_DIR "quiz_chroma_store"
    generator_db,       \* self.db of the QuizGenerator: "None" or "Chroma"
    llm_replies,        \* what the coming llm.invoke calls answer, in order
    gen_out,            \* how the last generate_*_questions call ended
    mixed_out,          \* how the last generate_mixed_quiz call ended
    \* ---- chroma_store (ingest_chroma.py, retrival_chroma.py, history_aware_rag.py)
    collection,         \* collection "my_knowledge_base": chunk id -> document, metadata, embedding
    ingests,            \* number of ingestion runs so far
    ingest_out,         \* how the last ingestion run ended and what it produced
    retr_out,           \* how the last retrieval call ended and the remote calls it made
    \* ---- chunk_text (ingest_chroma.py:84-106), one call
    ck_pc,              \* "idle", "loop" (at the `while` test), "returned"
    ck_text,            \* the argument text
    ck_chunk_size,      \* the argument chunk_size
    ck_overlap,         \* the argument overlap
    ck_start,           \* the local start (0-based)
    ck_chunks,          \* the local chunks
    ck_iters,           \* iterations of the while loop made so far
    \* ---- history_aware_rag.py
    chat_history,       \* the module's chat_history: messages [role, content]
    asks,               \* number of ask_question calls so far
    rewrite_out,        \* how the last rewrite_question call ended and the prompts it sent
    ask_out,            \* how the last ask_question call ended
    \* ---- QuizApp (quiz_generator.py:528-764)
    app_pc,             \* where run() stands: "start", "menu" (at the choice prompt), "quiz"
                        \* (inside run_quiz), "pause" (at "Press ENTER to continue..."),
                        \* "exited" (left by break), "crashed" (left by an exception)
    app_choice,         \* the menu choice read last
    app_generator       \* self.generator of the QuizApp: "None" or "QuizGenerator"

quizVars == <<current_score, total_questions, quiz_history, pc, err, questions,
              quiz_name, idx, last_input, reprompted, graded, ret, printed, runs>>

genVars == <<quiz_store, generator_db, llm_replies, gen_out, mixed_out>>

storeVars == <<collection, ingests, ingest_out, retr_out>>

chunkVars == <<ck_pc, ck_text, ck_chunk_size, ck_overlap, ck_start, ck_chunks, ck_iters>>

chatVars == <<chat_history, asks, rewrite_out, ask_out>>

appVars == <<app_pc, app_choice, app_generator>>

\* what no action of the runner, the generator or the stores touches
restVars == <<chunkVars, chatVars, appVars>>

vars == <<quizVars, genVars, storeVars, chunkVars, chatVars, appVars>>

-----------------------------------------------------------------------------
(* Bounds of the model *)

\* run_quiz is called at most MaxRuns times on one QuizRunner
MaxRuns == 2

-----------------------------------------------------------------------------
(* Text: Python str as a sequence of one-character strings *)

UpperAlpha == <<"A","B","C","D","E","F","G","H","I","J","K","L","M",
                "N","O","P","Q","R","S","T","U","V","W","X","Y","Z">>
LowerAlpha == <<"a","b","c","d","e","f","g","h","i","j","k","l","m",
                "n","o","p","q","r","s","t","u","v","w","x","y","z">>

\* characters str.strip() and \s treat as whitespace
Whitespace == {" ", "\t", "\n"}

LowerChar(c) ==
    IF \E i \in 1..26 : UpperAlpha[i] = c
    THEN LowerAlpha[CHOOSE i \in 1..26 : UpperAlpha[i] = c]
    ELSE c

UpperChar(c) ==
    IF \E i \in 1..26 : LowerAlpha[i] = c
    THEN UpperAlpha[CHOOSE i \in 1..26 : LowerAlpha[i] = c]
    ELSE c

\* str.lower()
Lower(s) == [i \in 1..Len(s) |-> LowerChar(s[i])]

\* str.upper()
Upper(s) == [i \in 1..Len(s) |-> UpperChar(s[i])]

\* str.strip(): drop the leading and the trailing whitespace
Strip(s) ==
    IF \A i \in 1..Len(s) : s[i] \in Whitespace THEN <<>>
    ELSE LET lo == CHOOSE i \in 1..Len(s) :
                      s[i] \notin Whitespace /\ \A j \in 1..(i - 1) : s[j] \in Whitespace
             hi == CHOOSE i \in 1..Len(s) :
                      s[i] \notin Whitespace /\ \A j \in (i + 1)..Len(s) : s[j] \in Whitespace
         IN  SubSeq(s, lo, hi)

-----------------------------------------------------------------------------
(* JSON / Python values: tagged so that a bool never equals a str *)

PyStr(s)  == [k |-> "str", s |-> s]
PyBool(b) == [k |-> "bool", b |-> b]


-----------------------------------------------------------------------------
(* Text used by the quizzes *)

Txt_A == <<"A">>
Txt_B == <<"B">>
Txt_C == <<"C">>
Txt_D == <<"D">>
Txt_E == <<"E">>
Txt_probation == <<"p","r","o","b","a","t","i","o","n">>
Txt_Probation == <<"P","r","o","b","a","t","i","o","n">>
Txt_probationary == <<"p","r","o","b","a","t","i","o","n","a","r","y">>
Txt_Probationary == <<"P","r","o","b","a","t","i","o","n","a","r","y">>
Txt_probat == <<"p","r","o","b","a","t">>

\* what input() may return at the "Your answer: " prompt (quiz_generator.py:400)
RawInputs ==
    { <<>>, <<" ">>, <<" ", "\t">>,
      Txt_A, <<"b">>, <<" ", "c", " ">>, Txt_D, Txt_E, <<"A", "B">>,
      <<"t","r","u","e">>, <<"T">>, <<"F","a","l","s","e">>, <<"f", " ">>, <<"y","e","s">>,
      Txt_Probation, Txt_probat, <<" ","P","R","O","B","A","T","I","O","N","A","R","Y">> }

\* no input() call has returned yet
NoInput == <<"<none>">>

-----------------------------------------------------------------------------
(* Questions as generate_*_questions returns them: the parsed JSON object   *)
(* with its "type" set. The shown texts ("question", "statement",          *)
(* "explanation", "hint") are only printed and are left out.               *)

FourOptions ==
    (Txt_A :> "first") @@ (Txt_B :> "second") @@ (Txt_C :> "third") @@ (Txt_D :> "fourth")

TwoOptions == (Txt_A :> "first") @@ (Txt_B :> "first")

\* a well-formed multiple-choice item (quiz_generator.py:188-198)
ItemMcq == [options |-> FourOptions, correct_answer |-> PyStr(Txt_B)]

\* an item whose correct_answer is no key of its options
ItemMcqNoLabel == [options |-> FourOptions, correct_answer |-> PyStr(Txt_E)]

\* an item with fewer than four options, two of them with the same text
ItemMcqTwo == [options |-> TwoOptions, correct_answer |-> PyStr(Txt_A)]

\* true/false items (quiz_generator.py:248-252)
ItemTrue == [correct_answer |-> PyBool(TRUE)]

ItemFalse == [correct_answer |-> PyBool(FALSE)]

\* fill-in-the-blank items (quiz_generator.py:301-306)
ItemFill ==
    [correct_answer |-> PyStr(Txt_probation),
     acceptable_answers |-> <<Txt_probation, Txt_Probationary>>]

\* the item of the prompt's own example (quiz_generator.py:302-305)
ItemFillExample ==
    [correct_answer |-> PyStr(Txt_probation),
     acceptable_answers |-> <<Txt_probation, Txt_probationary>>]

\* a fill_blank item without "acceptable_answers"
ItemFillBare == [correct_answer |-> PyStr(Txt_Probation)]

\* a fill_blank item whose "acceptable_answers" leaves its correct_answer out
ItemFillUnlisted ==
    [correct_answer |-> PyStr(Txt_probation), acceptable_answers |-> <<Txt_probationary>>]

\* q["type"] = q_type (quiz_generator.py:212-213, 265-266, 319-320)
set_type(q, q_type) == [key \in DOMAIN q \cup {"type"} |-> IF key = "type" THEN q_type ELSE q[key]]

QMcq == set_type(ItemMcq, "mcq")
QMcqNoLabel == set_type(ItemMcqNoLabel, "mcq")
QMcqTwo == set_type(ItemMcqTwo, "mcq")
QTrue == set_type(ItemTrue, "true_false")
QFalse == set_type(ItemFalse, "true_false")
QFill == set_type(ItemFill, "fill_blank")
QFillExample == set_type(ItemFillExample, "fill_blank")
QFillBare == set_type(ItemFillBare, "fill_blank")
QFillUnlisted == set_type(ItemFillUnlisted, "fill_blank")

\* the `questions` arguments run_quiz is called with
SampleQuizzes ==
    { <<>>,
      <<QMcq>>, <<QTrue>>, <<QFill>>, <<QFillExample>>, <<QFillBare>>, <<QMcqNoLabel>>,
      <<QFillUnlisted>>,
      <<QMcq, QFalse>>, <<QFill, QMcqNoLabel>>, <<QMcqTwo, QFill>>,
      <<QMcq, QTrue, QFill>>, <<QFill, QMcqNoLabel, QFalse>> }

QuizNames == {"Quiz"}

-----------------------------------------------------------------------------
(* QuizRunner *)

\* run_quiz without its gate on an empty `questions`
not_questions_never(qs) == FALSE

\* `if not questions` (quiz_generator.py:463)
not_questions(qs) == Len(qs) = 0

\* get_answer returning whatever was typed
get_answer_returns_anything(q_type, answer) == TRUE

\* get_answer: does the stripped `answer` leave the while loop? (quiz_generator.py:402-418)
get_answer_returns(q_type, answer) ==
    CASE q_type = "mcq" ->
            Upper(answer) \in {Txt_A, Txt_B, Txt_C, Txt_D}
      [] q_type = "true_false" ->
            Lower(answer) \in {<<"t","r","u","e">>, <<"t">>, <<"f","a","l","s","e">>, <<"f">>}
      [] q_type = "fill_blank" ->
            Len(answer) > 0
      [] OTHER -> TRUE

\* get_answer: the value it returns for the stripped `answer` (quiz_generator.py:402-418)
get_answer(q_type, answer) ==
    CASE q_type = "mcq" -> PyStr(Upper(answer))
      [] q_type = "true_false" -> PyBool(Lower(answer) \in {<<"t","r","u","e">>, <<"t">>})
      [] q_type = "fill_blank" -> PyStr(Lower(answer))
      [] OTHER -> PyStr(answer)

HasKey(question, key) == key \in DOMAIN question

\* check_answer comparing with the listed answers as written, not lower-cased
check_answer_as_listed(question, user_answer) ==
    CASE question.type = "fill_blank" ->
            LET listed == IF HasKey(question, "acceptable_answers")
                          THEN question.acceptable_answers
                          ELSE <<question.correct_answer.s>>
            IN  user_answer.k = "str" /\ \E i \in 1..Len(listed) : listed[i] = user_answer.s
      [] OTHER -> user_answer = question.correct_answer

\* check_answer (quiz_generator.py:420-435)
check_answer(question, user_answer) ==
    CASE question.type = "mcq" -> user_answer = question.correct_answer
      [] question.type = "true_false" -> user_answer = question.correct_answer
      [] question.type = "fill_blank" ->
            LET correct == Lower(question.correct_answer.s)
                listed == IF HasKey(question, "acceptable_answers")
                          THEN question.acceptable_answers
                          ELSE <<correct>>
                acceptable == [i \in 1..Len(listed) |-> Lower(listed[i])]
            IN  user_answer.k = "str" /\ \E i \in 1..Len(acceptable) : acceptable[i] = user_answer.s
      [] OTHER -> FALSE

\* show_result counting every answer
show_result_score_always(score, is_correct) == score + 1

\* show_result: the score after it (quiz_generator.py:439-441)
show_result_score(score, is_correct) == IF is_correct THEN score + 1 ELSE score

\* show_result: question['options'][correct] raises KeyError (quiz_generator.py:446-449)
show_result_raises(question, is_correct) ==
    /\ ~is_correct
    /\ question.type = "mcq"
    /\ question.correct_answer.s \notin DOMAIN question.options

\* percentage = (self.current_score / self.total_questions) * 100 (quiz_generator.py:494),
\* a float, held here in units of 1/10000 of a percent (66.6666... is 666666)
percentage_of(score, total) == (score * 1000000) \div total

\* f"{percentage:.1f}" (quiz_generator.py:500): the percentage rounded to one decimal,
\* in tenths of a percent (66.7 is 667); a tie goes to the even digit
format_1f(score, total) ==
    LET q == (score * 1000) \div total
        r == (score * 1000) % total
    IN  IF 2 * r > total \/ (2 * r = total /\ q % 2 = 1) THEN q + 1 ELSE q

RetNone == [r |-> "none"]

\* the {} run_quiz returns for no questions (quiz_generator.py:465)
RetEmpty == [r |-> "empty"]

\* the result dict of show_final_results, without its timestamp (quiz_generator.py:513-519)
result_of(name, score, total) ==
    [r |-> "result", quiz_name |-> name, score |-> score, total |-> total,
     percentage |-> percentage_of(score, total)]

QuizInit ==
    /\ current_score = 0
    /\ total_questions = 0
    /\ quiz_history = <<>>
    /\ pc = "idle"
    /\ err = "none"
    /\ questions = <<>>
    /\ quiz_name = "Quiz"
    /\ idx = 0
    /\ last_input = NoInput
    /\ reprompted = FALSE
    /\ graded = <<>>
    /\ ret = RetNone
    /\ printed = 0
    /\ runs = 0

\* show_final_results (quiz_generator.py:491-522), reached with every question asked
show_final_results(score) ==
    IF total_questions' = 0
    THEN \* ZeroDivisionError at line 494
         /\ pc' = "raised"
         /\ err' = "ZeroDivisionError"
         /\ UNCHANGED <<quiz_history, ret, printed>>
    ELSE /\ printed' = format_1f(score, total_questions')
         /\ quiz_history' = Append(quiz_history, result_of(quiz_name', score, total_questions'))
         /\ ret' = result_of(quiz_name', score, total_questions')
         /\ pc' = "idle"
         /\ err' = "none"

\* a run that starts from the score the runner already has
keep_current_score(score) == score

\* self.current_score = 0 (quiz_generator.py:467)
reset_current_score(score) == 0

\* run_quiz up to its first get_answer (quiz_generator.py:460-480), as it acts on the
\* runner
QuizRunner_run_quiz(qs, name) ==
    /\ pc = "idle"
    /\ runs < MaxRuns
    /\ runs' = runs + 1
    /\ questions' = qs
    /\ quiz_name' = name
    /\ last_input' = NoInput
    /\ reprompted' = FALSE
    /\ graded' = <<>>
    /\ IF not_questions(qs)
       THEN /\ ret' = RetEmpty
            /\ idx' = 0
            /\ UNCHANGED <<current_score, total_questions, quiz_history, pc, err, printed>>
       ELSE /\ current_score' = reset_current_score(current_score)
            /\ total_questions' = Len(qs)
            /\ idx' = 1
            /\ IF Len(qs) = 0
               THEN show_final_results(0)
               ELSE /\ pc' = "asking"
                    /\ UNCHANGED <<quiz_history, ret, err, printed>>

\* a run_quiz call on a runner that stands alone
run_quiz(qs, name) ==
    /\ QuizRunner_run_quiz(qs, name)
    /\ UNCHANGED <<genVars, storeVars, restVars>>

\* get_answer reads an input it refuses and prompts again (quiz_generator.py:399-415)
get_answer_again(raw) ==
    /\ pc = "asking"
    /\ ~get_answer_returns(questions[idx].type, Strip(raw))
    /\ last_input' = raw
    /\ reprompted' = TRUE
    /\ UNCHANGED <<genVars, storeVars, restVars>>
    /\ UNCHANGED <<current_score, total_questions, quiz_history, pc, err, questions,
                   quiz_name, idx, graded, ret, printed, runs>>

\* get_answer reads an input it returns; check_answer, show_result and either the next
\* display_question or show_final_results follow (quiz_generator.py:478-489)
answer_question(raw) ==
    /\ pc = "asking"
    /\ get_answer_returns(questions[idx].type, Strip(raw))
    /\ UNCHANGED <<genVars, storeVars, restVars>>
    /\ LET question == questions[idx]
           user_answer == get_answer(question.type, Strip(raw))
           is_correct == check_answer(question, user_answer)
       IN  /\ last_input' = raw
           /\ reprompted' = FALSE
           /\ graded' = Append(graded, is_correct)
           /\ current_score' = show_result_score(current_score, is_correct)
           /\ UNCHANGED <<total_questions, questions, quiz_name, runs>>
           /\ IF show_result_raises(question, is_correct)
              THEN /\ pc' = "raised"
                   /\ err' = "KeyError"
                   /\ UNCHANGED <<quiz_history, idx, ret, printed>>
              ELSE IF idx < Len(questions)
                   THEN /\ idx' = idx + 1
                        /\ UNCHANGED <<quiz_history, pc, err, ret, printed>>
                   ELSE /\ UNCHANGED idx
                        /\ show_final_results(current_score')

-----------------------------------------------------------------------------
(* The reply of the generative model (response.content), cut into pieces: *)
(* prose without braces, a lone "{", a lone "}", or the text of one JSON   *)
(* object.                                                                 *)

SegText == [seg |-> "text"]
SegOpen == [seg |-> "open"]
SegClose == [seg |-> "close"]
SegJson(obj) == [seg |-> "json", obj |-> obj]

\* JSON values other than str and bool
JNull == [k |-> "null"]
JNum == [k |-> "num"]
JList(items) == [k |-> "list", items |-> items]
\* an object met as a value: a list item (d, its keys and values) ...
JDict(d) == [k |-> "dict", d |-> d]
\* ... or the value of "questions" (only its keys matter to a for loop)
JObject(keys) == [k |-> "object", keys |-> keys]

\* the values the model's JSON object gives its "questions" key
SampleQuestionsValues ==
    { JNull, JNum, PyStr(<<>>), PyStr(<<"x">>), JObject({}), JObject({"1"}),
      JList(<<>>),
      JList(<<JDict(ItemMcq)>>),
      JList(<<JDict(ItemMcqTwo)>>),
      JList(<<JDict(ItemMcq), JDict(ItemMcqNoLabel)>>),
      JList(<<JDict(ItemTrue), JDict(ItemFalse)>>),
      JList(<<JDict(ItemFill)>>),
      JList(<<JDict(ItemFillBare), JNum>>),
      JList(<<PyStr(<<"x">>)>>) }

\* the JSON objects the model writes: with "questions", or with another key only
SampleObjects ==
    {[questions |-> v] : v \in SampleQuestionsValues} \cup {[note |-> JNull]}

Segments == {SegText, SegOpen, SegClose} \cup {SegJson(obj) : obj \in SampleObjects}

\* a reply of this model is made of at most MaxSegments pieces
MaxSegments == 2

Replies == UNION {[1..n -> Segments] : n \in 0..MaxSegments}

\* llm.invoke raised instead of answering
LlmError == <<[seg |-> "error"]>>

\* no llm.invoke call was made
NoReply == <<[seg |-> "none"]>>

\* re.search(r'\{[\s\S]*\}', response.content): the text from the first "{" to the
\* last "}" (quiz_generator.py:208, 261, 315)
json_match(content) ==
    LET opens == {i \in 1..Len(content) : content[i].seg \in {"open", "json"}}
        closes == {i \in 1..Len(content) : content[i].seg \in {"close", "json"}}
    IN  IF opens = {} \/ closes = {}
        THEN [matched |-> FALSE]
        ELSE LET lo == CHOOSE i \in opens : \A j \in opens : i <= j
                 hi == CHOOSE i \in closes : \A j \in closes : j <= i
             IN  IF lo < hi \/ (lo = hi /\ content[lo].seg = "json")
                 THEN [matched |-> TRUE, group |-> SubSeq(content, lo, hi)]
                 ELSE [matched |-> FALSE]

\* json.loads(json_match.group()) succeeds: the text is one JSON object, or "{}"
\* (quiz_generator.py:210)
json_loads_ok(group) ==
    \/ Len(group) = 1 /\ group[1].seg = "json"
    \/ group = <<SegOpen, SegClose>>

\* result.get("questions", []) of the decoded object (quiz_generator.py:210-211)
result_get_questions(group) ==
    IF Len(group) = 1 /\ "questions" \in DOMAIN group[1].obj
    THEN group[1].obj.questions
    ELSE JList(<<>>)

Returned(value) == [out |-> "return", value |-> value]
Raised(exc) == [out |-> "raise", exc |-> exc]

\* `for q in questions: q["type"] = ...; return questions` (quiz_generator.py:212-214)
tag_questions(qs, q_type) ==
    CASE qs.k = "list" ->
            IF \A i \in 1..Len(qs.items) : qs.items[i].k = "dict"
            THEN Returned(JList([i \in 1..Len(qs.items) |->
                                    set_type(qs.items[i].d, q_type)]))
            ELSE Raised("TypeError")
      [] qs.k = "object" ->
            IF qs.keys = {} THEN Returned(qs) ELSE Raised("TypeError")
      [] qs.k = "str" ->
            IF qs.s = <<>> THEN Returned(qs) ELSE Raised("TypeError")
      [] OTHER -> Raised("TypeError")

\* the try block after llm.invoke and the final `return []`
\* (quiz_generator.py:206-218, 260-271, 314-325)
parse_questions(content, q_type) ==
    LET m == json_match(content)
    IN  IF ~m.matched THEN Returned(JList(<<>>))
        ELSE IF ~json_loads_ok(m.group) THEN Returned(JList(<<>>))
        ELSE tag_questions(result_get_questions(m.group), q_type)

-----------------------------------------------------------------------------
(* QuizGenerator *)

\* the orders in which the index may rank n stored documents for a query
Rankings(n) == {r \in [1..n -> 1..n] : \A i, j \in 1..n : r[i] = r[j] => i = j}

Min(a, b) == IF a < b THEN a ELSE b

\* retrieve_relevant_content without its `if not self.db` test: None has no as_retriever
retrieve_relevant_content_unguarded(db, store, topic, k, embed_ok, ranking) ==
    IF db = "None"
    THEN [out |-> "raise", exc |-> "AttributeError", embeds |-> 0, queries |-> 0]
    ELSE IF ~embed_ok
    THEN [out |-> "raise", exc |-> "RemoteCallError", embeds |-> 1, queries |-> 0]
    ELSE [out |-> "return",
          value |-> [i \in 1..Min(k, Len(store.docs)) |-> store.docs[ranking[i]]],
          embeds |-> 1, queries |-> 1]

\* retrieve_relevant_content (quiz_generator.py:146-154): embeds and queries how many
\* remote calls it made
retrieve_relevant_content(db, store, topic, k, embed_ok, ranking) ==
    IF db = "None"
    THEN [out |-> "return", value |-> <<>>, embeds |-> 0, queries |-> 0]
    ELSE IF ~embed_ok
    THEN [out |-> "raise", exc |-> "RemoteCallError", embeds |-> 1, queries |-> 0]
    ELSE [out |-> "return",
          value |-> [i \in 1..Min(k, Len(store.docs)) |-> store.docs[ranking[i]]],
          embeds |-> 1, queries |-> 1]

\* generate_mcq_questions, generate_true_false_questions, generate_fill_blank_questions
\* (quiz_generator.py:156-218, 220-271, 273-325); reply is what llm.invoke does
generate_questions(q_type, context, reply) ==
    IF context.out = "raise" THEN Raised(context.exc)
    ELSE IF context.value = <<>> THEN Returned(JList(<<>>))
    ELSE IF reply = LlmError THEN Raised("RemoteCallError")
    ELSE parse_questions(reply, q_type)

\* the reply llm.invoke gave, when it was called and answered
reply_read(context, reply) ==
    IF context.out = "return" /\ context.value # <<>> /\ reply # LlmError
    THEN reply ELSE NoReply

NoStore == [exists |-> FALSE, docs |-> <<>>]

Store(docs) == [exists |-> TRUE, docs |-> docs]

\* the stores a QuizGenerator is constructed over (quiz_generator.py:134-144)
SampleStores == {NoStore, Store(<<>>), Store(<<Txt_probation, Txt_A>>)}

Topics == {<<>>, <<"x">>}

NoCall == [fn |-> "none"]

\* a QuizGenerator constructed over a store, and the replies llm.invoke will give
GenInit(stores, replies) ==
    /\ quiz_store \in stores
    /\ generator_db = IF quiz_store.exists THEN "Chroma" ELSE "None"
    /\ llm_replies \in replies
    /\ gen_out = NoCall
    /\ mixed_out = NoCall

\* a generate_*_questions call as it acts on the generator
QuizGenerator_generate(fn, q_type, topic, embed_ok, ranking) ==
    LET context == retrieve_relevant_content(generator_db, quiz_store, topic, 5,
                                             embed_ok, ranking)
        invoked == context.out = "return" /\ context.value # <<>>
        reply == IF invoked THEN Head(llm_replies) ELSE NoReply
    IN  /\ invoked => llm_replies # <<>>
        /\ llm_replies' = IF invoked THEN Tail(llm_replies) ELSE llm_replies
        /\ gen_out' = [fn |-> fn, topic |-> topic,
                       response |-> reply_read(context, reply),
                       result |-> generate_questions(q_type, context, reply)]
        /\ UNCHANGED <<quiz_store, generator_db, mixed_out>>

\* a generate_*_questions call on a generator that stands alone
generate_call(fn, q_type, topic, embed_ok, ranking) ==
    /\ QuizGenerator_generate(fn, q_type, topic, embed_ok, ranking)
    /\ UNCHANGED <<quizVars, storeVars, restVars>>

generate_mcq_questions(topic, embed_ok, ranking) ==
    generate_call("generate_mcq_questions", "mcq", topic, embed_ok, ranking)

generate_true_false_questions(topic, embed_ok, ranking) ==
    generate_call("generate_true_false_questions", "true_false", topic, embed_ok, ranking)

generate_fill_blank_questions(topic, embed_ok, ranking) ==
    generate_call("generate_fill_blank_questions", "fill_blank", topic, embed_ok, ranking)

-----------------------------------------------------------------------------
(* generate_mixed_quiz *)

\* get_num_questions returns any int the user typed (quiz_generator.py:597-604);
\* the model asks for at most MaxNumQuestions
MaxNumQuestions == 7

Max(a, b) == IF a > b THEN a ELSE b

\* num_tf computed like num_mcq, from the whole count
num_tf_of_whole(num_questions, num_mcq) == Max(1, num_questions \div 2)

\* num_mcq = max(1, num_questions // 2) (quiz_generator.py:336)
num_mcq_of(num_questions) == Max(1, num_questions \div 2)

\* num_tf = max(1, (num_questions - num_mcq) // 2) (quiz_generator.py:337)
num_tf_of(num_questions, num_mcq) == Max(1, (num_questions - num_mcq) \div 2)

\* num_fill = num_questions - num_mcq - num_tf (quiz_generator.py:338)
num_fill_of(num_questions, num_mcq, num_tf) == num_questions - num_mcq - num_tf

\* one generate_*_questions call inside generate_mixed_quiz: its result and the
\* replies left for the calls after it
mixed_part(q_type, topic, embed_ok, ranking, replies) ==
    LET context == retrieve_relevant_content(generator_db, quiz_store, topic, 5,
                                             embed_ok, ranking)
        invoked == context.out = "return" /\ context.value # <<>>
        reply == IF invoked THEN Head(replies) ELSE NoReply
    IN  [result |-> generate_questions(q_type, context, reply),
         response |-> reply_read(context, reply),
         replies |-> IF invoked THEN Tail(replies) ELSE replies]

\* all_questions.extend(part) (quiz_generator.py:347, 350, 353)
extend(all_questions, value) ==
    IF value.k = "list" THEN all_questions \o value.items ELSE all_questions

\* the outcomes of random.shuffle(all_questions) (quiz_generator.py:356-357)
Shuffles(all_questions) ==
    {[i \in 1..Len(all_questions) |-> all_questions[p[i]]] : p \in Rankings(Len(all_questions))}

\* generate_mixed_quiz (quiz_generator.py:327-359) as it acts on the generator; the same
\* topic is ranked the same way in its three retrievals
QuizGenerator_generate_mixed_quiz(topic, num_questions, embed_oks, ranking) ==
    LET num_mcq == num_mcq_of(num_questions)
        num_tf == num_tf_of(num_questions, num_mcq)
        num_fill == num_fill_of(num_questions, num_mcq, num_tf)
        mcq == mixed_part("mcq", topic, embed_oks[1], ranking, llm_replies)
        tf == mixed_part("true_false", topic, embed_oks[2], ranking, mcq.replies)
        fill == mixed_part("fill_blank", topic, embed_oks[3], ranking, tf.replies)
        split == [fn |-> "generate_mixed_quiz", num_questions |-> num_questions,
                  num_mcq |-> num_mcq, num_tf |-> num_tf, num_fill |-> num_fill]
    IN  /\ Len(llm_replies) >= 3
        /\ UNCHANGED <<quiz_store, generator_db, gen_out>>
        /\ IF mcq.result.out = "raise"
           THEN /\ llm_replies' = mcq.replies
                /\ mixed_out' = [parts |-> <<mcq.result>>, responses |-> <<mcq.response>>,
                                 result |-> mcq.result] @@ split
           ELSE IF tf.result.out = "raise"
           THEN /\ llm_replies' = tf.replies
                /\ mixed_out' = [parts |-> <<mcq.result, tf.result>>,
                                 responses |-> <<mcq.response, tf.response>>,
                                 result |-> tf.result] @@ split
           ELSE IF fill.result.out = "raise"
           THEN /\ llm_replies' = fill.replies
                /\ mixed_out' = [parts |-> <<mcq.result, tf.result, fill.result>>,
                                 responses |-> <<mcq.response, tf.response, fill.response>>,
                                 result |-> fill.result] @@ split
           ELSE /\ llm_replies' = fill.replies
                /\ \E shuffled \in Shuffles(extend(extend(extend(<<>>, mcq.result.value),
                                                          tf.result.value), fill.result.value)) :
                      mixed_out' = [parts |-> <<mcq.result, tf.result, fill.result>>,
                                    responses |-> <<mcq.response, tf.response,
                                                    fill.response>>,
                                    result |-> Returned(JList(shuffled))] @@ split

\* a generate_mixed_quiz call on a generator that stands alone
generate_mixed_quiz(topic, num_questions, embed_oks, ranking) ==
    /\ QuizGenerator_generate_mixed_quiz(topic, num_questions, embed_oks, ranking)
    /\ UNCHANGED <<quizVars, storeVars, restVars>>

\* the replies the model gives inside a mixed quiz
MixedReplies ==
    { <<SegText>>,
      <<SegJson([questions |-> JList(<<JDict(ItemMcq)>>)])>>,
      <<SegText, SegJson([questions |-> JList(<<JDict(ItemTrue)>>)])>>,
      <<SegJson([questions |-> JNull])>>,
      LlmError }

-----------------------------------------------------------------------------
(* Ingestion into chroma_store (ingest_chroma.py) *)

\* the character "\x00"
Nul == "\\x00"

NotNul(c) == c # Nul

\* clean_text (ingest_chroma.py:72-78): drop "\x00", turn every run of whitespace
\* into one space, strip
clean_text(text) ==
    LET t == SelectSeq(text, NotNul)
        Kept(i) == t[i] \notin Whitespace \/ i = 1 \/ t[i - 1] \notin Whitespace
        kept == SelectSeq([i \in 1..Len(t) |-> i], Kept)
    IN  Strip([j \in 1..Len(kept) |-> IF t[kept[j]] \in Whitespace THEN " " ELSE t[kept[j]]])

\* the defaults of chunk_text (ingest_chroma.py:84)
chunk_size_default == 800
overlap_default == 150

\* the loop body without its `if end == n: break`
chunk_step_no_break(text, chunk_size, overlap, start, chunks) ==
    LET n == Len(text)
        end == Min(start + chunk_size, n)
        chunk == Strip(SubSeq(text, start + 1, end))
    IN  [chunks |-> IF chunk # <<>> THEN Append(chunks, chunk) ELSE chunks,
         start |-> Max(end - overlap, 0),
         broke |-> FALSE]

\* one iteration of the while loop of chunk_text (ingest_chroma.py:94-103), from the
\* 0-based `start`: the chunks so far, the next start, and whether the loop broke
chunk_step(text, chunk_size, overlap, start, chunks) ==
    LET n == Len(text)
        end == Min(start + chunk_size, n)
        chunk == Strip(SubSeq(text, start + 1, end))
    IN  [chunks |-> IF chunk # <<>> THEN Append(chunks, chunk) ELSE chunks,
         start |-> Max(end - overlap, 0),
         broke |-> end = n]

RECURSIVE chunk_loop(_, _, _, _, _)
\* `while start < n` (ingest_chroma.py:93)
chunk_loop(text, chunk_size, overlap, start, chunks) ==
    IF ~(start < Len(text)) THEN chunks
    ELSE LET step == chunk_step(text, chunk_size, overlap, start, chunks)
         IN  IF step.broke THEN step.chunks
             ELSE chunk_loop(text, chunk_size, overlap, step.start, step.chunks)

\* chunk_text (ingest_chroma.py:84-106)
chunk_text(text, chunk_size, overlap) == chunk_loop(text, chunk_size, overlap, 0, <<>>)

\* f"{doc['id']}::chunk_{i}" (ingest_chroma.py:162); file names hold no "::chunk_"
chunk_id(doc_id, i) == <<doc_id, "::chunk_", i>>

\* the vector the embedding model gives a text
Embedding(text) == [embedding_of |-> text]

\* safe_texts of get_openai_embeddings (ingest_chroma.py:119)
safe_text(t) == IF Strip(t) # <<>> THEN t ELSE <<" ">>

\* all_ids, all_texts, all_metadatas of one document (ingest_chroma.py:158-167),
\* chunk_index counted from 0
doc_records(doc) ==
    LET chunks == chunk_text(clean_text(doc.text), chunk_size_default, overlap_default)
    IN  [i \in 1..Len(chunks) |->
            [id |-> chunk_id(doc.id, i - 1),
             document |-> chunks[i],
             metadata |-> [source |-> doc.metadata.source, path |-> doc.metadata.path,
                           chunk_index |-> i - 1]]]

RECURSIVE all_records(_)
\* the loop over docs (ingest_chroma.py:155-167): the records of the documents in
\* their order, joined (computed by halves)
all_records(docs) ==
    IF docs = <<>> THEN <<>>
    ELSE IF Len(docs) = 1 THEN doc_records(docs[1])
    ELSE all_records(SubSeq(docs, 1, Len(docs) \div 2))
            \o all_records(SubSeq(docs, Len(docs) \div 2 + 1, Len(docs)))

\* batch_size (ingest_chroma.py:176)
batch_size == 64

\* total_batches (ingest_chroma.py:177)
total_batches(n) == (n + batch_size - 1) \div batch_size

\* all_ids, all_texts, all_metadatas: three lists filled in step (ingest_chroma.py:151-167)
all_ids(records) == [i \in 1..Len(records) |-> records[i].id]
all_texts(records) == [i \in 1..Len(records) |-> records[i].document]
all_metadatas(records) == [i \in 1..Len(records) |-> records[i].metadata]

\* a slice that runs one element into the next batch
batch_of_one_more(list, b) ==
    SubSeq(list, (b - 1) * batch_size + 1, Min(b * batch_size + 1, Len(list)))

\* list[i : i + batch_size] of batch number b, counted from 1, i = (b - 1) * batch_size
\* (ingest_chroma.py:178-181)
batch_of(list, b) ==
    SubSeq(list, (b - 1) * batch_size + 1, Min(b * batch_size, Len(list)))

\* get_openai_embeddings (ingest_chroma.py:112-129): resp.data is aligned with the input
get_openai_embeddings(texts) == [i \in 1..Len(texts) |-> Embedding(safe_text(texts[i]))]

\* the arguments of the collection.add of batch b (ingest_chroma.py:179-192)
add_call(records, b) ==
    [ids |-> batch_of(all_ids(records), b),
     documents |-> batch_of(all_texts(records), b),
     metadatas |-> batch_of(all_metadatas(records), b),
     embeddings |-> get_openai_embeddings(batch_of(all_texts(records), b))]

\* what the collection holds for a record that was added
entry_of(record) ==
    [document |-> record.document, metadata |-> record.metadata,
     embedding |-> Embedding(safe_text(record.document))]

\* the ids of a batch that the collection already holds
existing_ids(coll, batch) ==
    {batch.ids[i] : i \in 1..Len(batch.ids)} \cap DOMAIN coll

\* collection.add(ids, documents, metadatas, embeddings) (ingest_chroma.py:187-192):
\* the lists are matched by position; an id the collection already holds keeps its
\* stored entry
collection_add(coll, batch) ==
    LET new == {i \in 1..Len(batch.ids) : batch.ids[i] \notin DOMAIN coll}
    IN  [id \in DOMAIN coll \cup {batch.ids[i] : i \in new} |->
            IF id \in DOMAIN coll THEN coll[id]
            ELSE LET i == CHOOSE i \in new : batch.ids[i] = id
                 IN  [document |-> batch.documents[i], metadata |-> batch.metadatas[i],
                      embedding |-> batch.embeddings[i]]]

\* collection.add in a build that refuses an id it already holds
AddRaises(coll, batch, on_existing) ==
    on_existing = "raise" /\ existing_ids(coll, batch) # {}

RECURSIVE add_batches(_, _, _, _, _, _)
\* the batch loop (ingest_chroma.py:178-193) from batch b on: the embedding call of
\* batch fail_at fails (0: none does); adds are the collection.add calls made
add_batches(coll, records, b, fail_at, on_existing, adds) ==
    IF b > total_batches(Len(records))
    THEN [out |-> "return", collection |-> coll, embeds |-> b - 1, adds |-> adds]
    ELSE IF b = fail_at
    THEN [out |-> "raise", exc |-> "RemoteCallError", collection |-> coll,
          embeds |-> b, adds |-> adds]
    ELSE IF AddRaises(coll, add_call(records, b), on_existing)
    THEN [out |-> "raise", exc |-> "DuplicateIDError", collection |-> coll,
          embeds |-> b, adds |-> Append(adds, add_call(records, b))]
    ELSE add_batches(collection_add(coll, add_call(records, b)), records, b + 1,
                     fail_at, on_existing, Append(adds, add_call(records, b)))

\* the entries a run over docs produces, by chunk id
produced_by(docs) ==
    LET records == all_records(docs)
    IN  [id \in {records[i].id : i \in 1..Len(records)} |->
            entry_of(records[CHOOSE i \in 1..Len(records) : records[i].id = id])]

EmptyCollection == <<>>

NoRun == [fn |-> "none"]

\* at most MaxIngests ingestion runs are made
MaxIngests == 2

\* ingest_to_chroma (ingest_chroma.py:135-198)
ingest_to_chroma(docs, fail_at, on_existing) ==
    LET records == all_records(docs)
        done == IF records = <<>>
                THEN [out |-> "return", collection |-> collection, embeds |-> 0,
                      adds |-> <<>>]
                ELSE add_batches(collection, records, 1, fail_at, on_existing, <<>>)
    IN  /\ ingests < MaxIngests
        /\ fail_at \in 0..total_batches(Len(records))
        /\ ingests' = ingests + 1
        /\ collection' = done.collection
        /\ ingest_out' = [fn |-> "ingest_to_chroma", out |-> done.out,
                          exc |-> IF done.out = "raise" THEN done.exc ELSE "none",
                          embeds |-> done.embeds, adds |-> done.adds,
                          ids |-> all_ids(records),
                          produced |-> produced_by(docs)]
        /\ UNCHANGED <<retr_out, quizVars, genVars, restVars>>

\* a document as load_documents_from_folder builds it (ingest_chroma.py:58-64)
Doc(filename, text) ==
    [id |-> filename, text |-> text,
     metadata |-> [source |-> filename, path |-> <<"data", "/", filename>>]]

Repeat(c, n) == [i \in 1..n |-> c]

\* a text that chunk_text cuts into two windows
Txt_long == Repeat("a", 800) \o <<" ">> \o Repeat("b", 99)

\* a folder of count files f1.txt, f2.txt, ..., each with a text of its own
ManyDocs(count) ==
    [i \in 1..count |-> Doc("f" \o ToString(i) \o ".txt", <<"x", ToString(i)>>)]

\* the folder listings of the model: the same file names with changing contents
SampleFolders ==
    { <<>>,
      <<Doc("a.txt", <<"a", "b">>)>>,
      <<Doc("a.txt", <<" ", "a", Nul, "\n", "\n", "c", " ">>), Doc("c.pdf", <<"c">>)>>,
      <<Doc("a.txt", Txt_long)>>,
      <<Doc("b.md", <<" ", "\n">>)>>,
      <<Doc("b.md", <<"b">>), Doc("c.pdf", <<"d">>)>>,
      ManyDocs(batch_size + 1), ManyDocs(2 * batch_size + 1) }

\* the page_content of the Documents load_all_notes hands over, never none
\* (quiz_generator.py:580-583)
SampleDocuments ==
    { <<Txt_probation>>, <<Txt_A, Txt_B>>, <<Txt_probation, Txt_A>> }

\* NotesIngestion.create_vector_store (quiz_generator.py:101-119): the old store is
\* removed, then Chroma.from_documents opens a new one and embeds the documents
NotesIngestion_create_vector_store(documents, embed_ok) ==
    /\ ingests < MaxIngests
    /\ ingests' = ingests + 1
    /\ quiz_store' = IF embed_ok THEN Store(documents) ELSE Store(<<>>)
    /\ ingest_out' = [fn |-> "create_vector_store",
                      out |-> IF embed_ok THEN "return" ELSE "raise",
                      embeds |-> 1, adds |-> <<>>, produced |-> documents]

\* a create_vector_store call outside the application
create_vector_store(documents, embed_ok) ==
    /\ NotesIngestion_create_vector_store(documents, embed_ok)
    /\ UNCHANGED <<collection, retr_out, quizVars, generator_db, llm_replies,
                   gen_out, mixed_out, restVars>>

-----------------------------------------------------------------------------
(* Retrieval entry points *)

NoRetrieval == [fn |-> "none"]

\* the orders in which the index may rank the entries of a collection
Orderings(coll) ==
    {r \in [1..Cardinality(DOMAIN coll) -> DOMAIN coll] :
        \A i, j \in 1..Cardinality(DOMAIN coll) : r[i] = r[j] => i = j}

\* embed_query (retrival_chroma.py:11-19)
embed_query(question, embed_ok) ==
    /\ retr_out' =
         IF Strip(question) = <<>>
         THEN [fn |-> "embed_query", query |-> question, out |-> "raise",
               exc |-> "ValueError", embeds |-> 0, queries |-> 0]
         ELSE IF ~embed_ok
         THEN [fn |-> "embed_query", query |-> question, out |-> "raise",
               exc |-> "RemoteCallError", embeds |-> 1, queries |-> 0]
         ELSE [fn |-> "embed_query", query |-> question, out |-> "return",
               value |-> Embedding(question), embeds |-> 1, queries |-> 0]
    /\ UNCHANGED <<collection, ingests, ingest_out, quizVars, genVars, restVars>>

\* collection.query(query_embeddings=[e], n_results=top_k, include=[...])
\* (retrival_chroma.py:34-38): the lists of the one query, nearest first; the distance
\* of an entry is modelled by its rank
query_results(coll, top_k, ranking) ==
    [documents |-> [i \in 1..Min(top_k, Len(ranking)) |-> coll[ranking[i]].document],
     metadatas |-> [i \in 1..Min(top_k, Len(ranking)) |-> coll[ranking[i]].metadata],
     distances |-> [i \in 1..Min(top_k, Len(ranking)) |-> i]]

\* search_chroma (retrival_chroma.py:25-40) with the embedding embed_query returned,
\* as main calls it (retrival_chroma.py:109-112)
search_chroma(top_k, ranking) ==
    /\ retr_out.fn = "embed_query"
    /\ retr_out.out = "return"
    /\ retr_out' = [fn |-> "search_chroma", query |-> retr_out.value.embedding_of,
                    out |-> "return",
                    value |-> query_results(collection, top_k, ranking),
                    embeds |-> 0, queries |-> 1]
    /\ UNCHANGED <<collection, ingests, ingest_out, quizVars, genVars, restVars>>

\* meta.get(key, default) (retrival_chroma.py:54-55)
meta_get(meta, key, default) == IF key \in DOMAIN meta THEN meta[key] ELSE default

\* zip(docs, metas, distances) stops with the shortest list (retrival_chroma.py:53)
zip_len(results) ==
    Min(Len(results.documents), Min(Len(results.metadatas), Len(results.distances)))

\* build_context (retrival_chroma.py:46-60): the lines it joins, numbered from 1
build_context(results) ==
    [i \in 1..zip_len(results) |->
        [i |-> i,
         source |-> meta_get(results.metadatas[i], "source", "unknown"),
         chunk |-> meta_get(results.metadatas[i], "chunk_index", "?"),
         distance |-> results.distances[i],
         doc |-> results.documents[i]]]

\* build_context on what search_chroma returned, as main calls it
\* (retrival_chroma.py:112-115)
build_context_of_results ==
    /\ retr_out.fn = "search_chroma"
    /\ retr_out' = [fn |-> "build_context", query |-> retr_out.query, out |-> "return",
                    value |-> build_context(retr_out.value), embeds |-> 0, queries |-> 0]
    /\ UNCHANGED <<collection, ingests, ingest_out, quizVars, genVars, restVars>>

\* a call of QuizGenerator.retrieve_relevant_content (quiz_generator.py:146-154)
call_retrieve_relevant_content(topic, k, embed_ok, ranking) ==
    /\ retr_out' = [fn |-> "retrieve_relevant_content", query |-> topic]
                       @@ retrieve_relevant_content(generator_db, quiz_store, topic, k,
                                                    embed_ok, ranking)
    /\ UNCHANGED <<collection, ingests, ingest_out, quizVars, genVars, restVars>>

\* retriever.invoke(search_question) of db.as_retriever(search_kwargs={"k": k})
\* (history_aware_rag.py:65-66): one embedding call, then one query of the collection
retriever_invoke(coll, search_question, k, embed_ok, ranking) ==
    IF ~embed_ok
    THEN [fn |-> "retrieve_docs", query |-> search_question, out |-> "raise",
          exc |-> "RemoteCallError", embeds |-> 1, queries |-> 0]
    ELSE [fn |-> "retrieve_docs", query |-> search_question, out |-> "return",
          value |-> [i \in 1..Min(k, Len(ranking)) |-> coll[ranking[i]].document],
          embeds |-> 1, queries |-> 1]

\* retrieve_docs (history_aware_rag.py:64-67)
retrieve_docs(search_question, k, embed_ok, ranking) ==
    /\ retr_out' = retriever_invoke(collection, search_question, k, embed_ok, ranking)
    /\ UNCHANGED <<collection, ingests, ingest_out, quizVars, genVars, restVars>>

\* the model asks for at most MaxK results
MaxK == 5

\* the query texts of the model
Queries == { <<>>, <<" ">>, <<" ", "\t", "\n">>, <<"x">>, <<" ", "x", " ">> }

\* the collections retrieval runs over: what an ingestion run left
SampleCollections ==
    { EmptyCollection,
      produced_by(<<Doc("a.txt", <<"a", "b">>)>>),
      produced_by(<<Doc("a.txt", <<"a">>), Doc("b.md", <<"b">>), Doc("c.pdf", <<"c">>)>>) }

StoreInit(collections) ==
    /\ collection \in collections
    /\ ingests = 0
    /\ ingest_out = NoRun
    /\ retr_out = NoRetrieval

-----------------------------------------------------------------------------
(* chunk_text, iteration by iteration *)

\* the texts, chunk sizes and overlaps chunk_text is called with in this model
MaxTextLen == 4
MaxChunkSize == 3
MaxOverlap == 3

ChunkAlphabet == {"a", "b", " "}

ChunkTexts == UNION {[1..len -> ChunkAlphabet] : len \in 0..MaxTextLen}

ChunkInit ==
    /\ ck_pc = "idle"
    /\ ck_text = <<>>
    /\ ck_chunk_size = 0
    /\ ck_overlap = 0
    /\ ck_start = 0
    /\ ck_chunks = <<>>
    /\ ck_iters = 0

\* the call and the assignments before the loop (ingest_chroma.py:84-91)
chunk_text_begin(text, chunk_size, overlap) ==
    /\ ck_pc = "idle"
    /\ ck_text' = text
    /\ ck_chunk_size' = chunk_size
    /\ ck_overlap' = overlap
    /\ ck_start' = 0
    /\ ck_chunks' = <<>>
    /\ ck_iters' = 0
    /\ ck_pc' = "loop"
    /\ UNCHANGED <<quizVars, genVars, storeVars, chatVars, appVars>>

\* one pass through the body of `while start < n` (ingest_chroma.py:93-103); the model
\* follows a call for at most MaxTextLen + 2 passes
chunk_text_iterate ==
    /\ ck_pc = "loop"
    /\ ck_start < Len(ck_text)
    /\ ck_iters < MaxTextLen + 2
    /\ LET step == chunk_step(ck_text, ck_chunk_size, ck_overlap, ck_start, ck_chunks)
       IN  /\ ck_chunks' = step.chunks
           /\ ck_start' = step.start
           /\ ck_pc' = IF step.broke THEN "returned" ELSE "loop"
    /\ ck_iters' = ck_iters + 1
    /\ UNCHANGED <<ck_text, ck_chunk_size, ck_overlap>>
    /\ UNCHANGED <<quizVars, genVars, storeVars, chatVars, appVars>>

\* the loop test fails: `return chunks` (ingest_chroma.py:93, 106)
chunk_text_return ==
    /\ ck_pc = "loop"
    /\ ~(ck_start < Len(ck_text))
    /\ ck_pc' = "returned"
    /\ UNCHANGED <<ck_text, ck_chunk_size, ck_overlap, ck_start, ck_chunks, ck_iters>>
    /\ UNCHANGED <<quizVars, genVars, storeVars, chatVars, appVars>>

-----------------------------------------------------------------------------
(* history_aware_rag.py *)

HumanMessage(content) == [role |-> "human", content |-> content]
AIMessage(content) == [role |-> "ai", content |-> content]
SystemMessage(content) == [role |-> "system", content |-> content]

\* the instructions of the two prompts (history_aware_rag.py:43-52, 79-87)
RewriterRules == <<"You are a question rewriter for conversational RAG. ...">>
AnswerRules == <<"You are a helpful assistant. ...">>

\* the number of messages of chat_history[-8:] (history_aware_rag.py:53)
history_window == 8

\* the first messages of the history instead of the last
first_messages(history, count) == SubSeq(history, 1, Min(count, Len(history)))

\* history[-count:]
last_messages(history, count) ==
    SubSeq(history, Len(history) - Min(count, Len(history)) + 1, Len(history))

\* rewrite_prompt (history_aware_rag.py:42-55)
rewrite_prompt(history, user_question) ==
    <<SystemMessage(RewriterRules)>>
        \o last_messages(history, history_window)
        \o <<HumanMessage(<<"Latest user question: ">> \o user_question)>>

\* the chat model did not answer
ChatError == <<"<error>">>

\* a rewrite that asks the model even when there is no history
rewrite_always(history, user_question, reply) ==
    IF reply = ChatError
    THEN [out |-> "raise", exc |-> "RemoteCallError",
          prompts |-> <<rewrite_prompt(history, user_question)>>]
    ELSE [out |-> "return", value |-> Strip(reply),
          prompts |-> <<rewrite_prompt(history, user_question)>>]

\* rewrite_question (history_aware_rag.py:34-58) on a given history: what it returns
\* and the prompts it sent to llm.invoke
rewrite(history, user_question, reply) ==
    IF history = <<>>
    THEN [out |-> "return", value |-> user_question, prompts |-> <<>>]
    ELSE IF reply = ChatError
    THEN [out |-> "raise", exc |-> "RemoteCallError",
          prompts |-> <<rewrite_prompt(history, user_question)>>]
    ELSE [out |-> "return", value |-> Strip(reply),
          prompts |-> <<rewrite_prompt(history, user_question)>>]

NoRewrite == [fn |-> "none"]

NoAsk == [fn |-> "none"]

\* chat_history = [] (history_aware_rag.py:28)
ChatInit ==
    /\ chat_history = <<>>
    /\ asks = 0
    /\ rewrite_out = NoRewrite
    /\ ask_out = NoAsk

\* a call of rewrite_question (history_aware_rag.py:34-58)
rewrite_question(user_question, reply) ==
    /\ rewrite_out' = [fn |-> "rewrite_question", question |-> user_question,
                       history |-> chat_history]
                          @@ rewrite(chat_history, user_question, reply)
    /\ UNCHANGED <<chat_history, asks, ask_out>>
    /\ UNCHANGED <<quizVars, genVars, storeVars, chunkVars, appVars>>

\* the prompt of answer_from_docs (history_aware_rag.py:74-94)
answer_prompt(user_question, docs) ==
    <<SystemMessage(AnswerRules),
      [role |-> "human", question |-> user_question,
       documents |-> [i \in 1..Len(docs) |-> [doc |-> i, page_content |-> docs[i]]]]>>

\* at most MaxAsks questions are asked in one chat
MaxAsks == 5

\* the turns saved with the assistant's turn first
saved_turns_answer_first(user_question, answer) ==
    <<AIMessage(answer), HumanMessage(user_question)>>

\* chat_history.append(HumanMessage(content=user_question));
\* chat_history.append(AIMessage(content=answer)) (history_aware_rag.py:123-124)
saved_turns(user_question, answer) ==
    <<HumanMessage(user_question), AIMessage(answer)>>

\* ask_question (history_aware_rag.py:102-126)
ask_question(user_question, rewritten, embed_ok, ranking, answer) ==
    LET search == rewrite(chat_history, user_question, rewritten)
        docs == retriever_invoke(collection, search.value, 3, embed_ok, ranking)
        asked == [fn |-> "ask_question", question |-> user_question]
    IN  /\ asks < MaxAsks
        /\ asks' = asks + 1
        /\ rewrite_out' = [fn |-> "rewrite_question", question |-> user_question,
                           history |-> chat_history] @@ search
        /\ IF search.out = "raise"
           THEN /\ ask_out' = [out |-> "raise", exc |-> search.exc] @@ asked
                /\ UNCHANGED <<chat_history, retr_out>>
           ELSE /\ retr_out' = docs
                /\ IF docs.out = "raise"
                   THEN /\ ask_out' = [out |-> "raise", exc |-> docs.exc] @@ asked
                        /\ UNCHANGED chat_history
                   ELSE IF answer = ChatError
                   THEN /\ ask_out' = [out |-> "raise", exc |-> "RemoteCallError"] @@ asked
                        /\ UNCHANGED chat_history
                   ELSE /\ ask_out' = [out |-> "return", value |-> Strip(answer),
                                       search_question |-> search.value,
                                       prompt |-> answer_prompt(user_question, docs.value)]
                                          @@ asked
                        /\ chat_history' = chat_history
                                \o saved_turns(user_question, Strip(answer))
        /\ UNCHANGED <<collection, ingests, ingest_out>>
        /\ UNCHANGED <<quizVars, genVars, chunkVars, appVars>>

\* what the user asks and what the chat model replies
ChatQuestions == { <<" ", "q", " ">>, <<"w", "h", "y", "?">> }

ChatReplies == { <<" ", "r", " ">>, ChatError }

-----------------------------------------------------------------------------
(* QuizApp *)

\* DEFAULT_NUM_QUESTIONS (quiz_generator.py:24)
DEFAULT_NUM_QUESTIONS == 5

\* QuizApp() constructed, run() not yet called (quiz_generator.py:531-534, 771)
AppInit ==
    /\ app_pc = "start"
    /\ app_choice = "none"
    /\ app_generator = "None"

Txt_general_overview == <<"g","e","n","e","r","a","l"," ","o","v","e","r","v","i","e","w">>

\* get_topic_input (quiz_generator.py:590-595)
get_topic_input(raw) == IF Strip(raw) = <<>> THEN Txt_general_overview ELSE Strip(raw)

\* what the user types at "Number:": nothing, a number, or something int() refuses
NumberInputs == {[typed |-> "nothing"], [typed |-> "int", n |-> 3], [typed |-> "text"]}

\* get_num_questions (quiz_generator.py:597-604)
get_num_questions(typed) ==
    IF typed.typed = "int" THEN typed.n ELSE DEFAULT_NUM_QUESTIONS

\* the quiz types of the menu choices 2 to 5 (quiz_generator.py:745-752)
QuizTypes == ("2" :> "mcq") @@ ("3" :> "true_false") @@ ("4" :> "fill_blank") @@ ("5" :> "mixed")

\* the generator method generate_and_run_quiz calls for a quiz type
\* (quiz_generator.py:635-659)
generator_method(quiz_type) ==
    CASE quiz_type = "mcq" -> "generate_mcq_questions"
      [] quiz_type = "true_false" -> "generate_true_false_questions"
      [] quiz_type = "fill_blank" -> "generate_fill_blank_questions"
      [] quiz_type = "mixed" -> "generate_mixed_quiz"

\* the quiz_name of a quiz type, without the topic that follows it
\* (quiz_generator.py:640, 646, 652, 659)
quiz_name_of(quiz_type) ==
    CASE quiz_type = "mcq" -> "MCQ Quiz"
      [] quiz_type = "true_false" -> "True/False Quiz"
      [] quiz_type = "fill_blank" -> "Fill-in-Blank Quiz"
      [] quiz_type = "mixed" -> "Mixed Quiz"

\* `if questions:` (quiz_generator.py:661): a list that is not empty
truthy(value) == value.k = "list" /\ value.items # <<>>

\* run() up to its first menu prompt (quiz_generator.py:727-740)
run_begin ==
    /\ app_pc = "start"
    /\ app_pc' = "menu"
    /\ app_generator' = IF quiz_store.exists THEN "QuizGenerator" ELSE "None"
    /\ generator_db' = IF quiz_store.exists THEN "Chroma" ELSE generator_db
    /\ UNCHANGED <<app_choice, quiz_store, llm_replies, gen_out, mixed_out>>
    /\ UNCHANGED <<quizVars, storeVars, chunkVars, chatVars>>

\* choice 1: load_notes (quiz_generator.py:567-588); an exception of
\* create_vector_store leaves load_notes and run(), which handle none
load_notes(folder_exists, documents, embed_ok) ==
    /\ app_pc = "menu"
    /\ app_choice' = "1"
    /\ UNCHANGED <<quizVars, chunkVars, chatVars>>
    /\ UNCHANGED <<collection, retr_out, llm_replies, gen_out, mixed_out>>
    /\ IF ~folder_exists \/ documents = <<>>
       THEN /\ app_pc' = "pause"
            /\ UNCHANGED <<app_generator, quiz_store, generator_db, ingests, ingest_out>>
       ELSE /\ NotesIngestion_create_vector_store(documents, embed_ok)
            /\ IF ingest_out'.out = "raise"
               THEN /\ app_pc' = "crashed"
                    /\ UNCHANGED <<app_generator, generator_db>>
               ELSE /\ app_pc' = "pause"
                    /\ app_generator' = "QuizGenerator"
                    /\ generator_db' = "Chroma"

\* a gate that lets every call through
not_generator_never(generator) == FALSE

\* `if not self.generator` (quiz_generator.py:625)
not_generator(generator) == generator = "None"

\* choices 2 to 5: generate_and_run_quiz (quiz_generator.py:622-666) up to the first
\* get_answer of the quiz it starts; an exception of the generator leaves
\* generate_and_run_quiz and run(), which handle none. The difficulty that is read for
\* mcq and mixed goes into the prompt only.
generate_and_run_quiz(choice, raw_topic, typed, embed_oks, ranking) ==
    LET quiz_type == QuizTypes[choice]
        topic == get_topic_input(raw_topic)
        num_questions == get_num_questions(typed)
    IN  /\ app_pc = "menu"
        /\ app_choice' = choice
        /\ UNCHANGED <<app_generator, storeVars, chunkVars, chatVars>>
        /\ IF not_generator(app_generator)
           THEN /\ app_pc' = "pause"
                /\ UNCHANGED <<quizVars, genVars>>
           ELSE /\ IF quiz_type = "mixed"
                   THEN QuizGenerator_generate_mixed_quiz(topic, num_questions, embed_oks,
                                                          ranking)
                   ELSE QuizGenerator_generate(generator_method(quiz_type), quiz_type,
                                               topic, embed_oks[1], ranking)
                /\ LET result == IF quiz_type = "mixed" THEN mixed_out'.result
                                 ELSE gen_out'.result
                   IN  IF result.out = "raise"
                       THEN /\ app_pc' = "crashed"
                            /\ UNCHANGED quizVars
                       ELSE IF truthy(result.value)
                       THEN /\ QuizRunner_run_quiz(result.value.items, quiz_name_of(quiz_type))
                            /\ app_pc' = "quiz"
                       ELSE /\ app_pc' = "pause"
                            /\ UNCHANGED quizVars

\* choice 6: view_history (quiz_generator.py:668-682)
view_history ==
    /\ app_pc = "menu"
    /\ app_choice' = "6"
    /\ app_pc' = "pause"
    /\ UNCHANGED <<app_generator, quizVars, genVars, storeVars, chunkVars, chatVars>>

\* choice 7: show_help (quiz_generator.py:684-725)
show_help ==
    /\ app_pc = "menu"
    /\ app_choice' = "7"
    /\ app_pc' = "pause"
    /\ UNCHANGED <<app_generator, quizVars, genVars, storeVars, chunkVars, chatVars>>

\* any other text at the menu prompt (quiz_generator.py:761-762)
OtherChoices == {"", "9"}

invalid_choice(choice) ==
    /\ app_pc = "menu"
    /\ app_choice' = choice
    /\ app_pc' = "pause"
    /\ UNCHANGED <<app_generator, quizVars, genVars, storeVars, chunkVars, chatVars>>

\* choice 8: break (quiz_generator.py:757-760)
exit_choice ==
    /\ app_pc = "menu"
    /\ app_choice' = "8"
    /\ app_pc' = "exited"
    /\ UNCHANGED <<app_generator, quizVars, genVars, storeVars, chunkVars, chatVars>>

\* input("Press ENTER to continue...") (quiz_generator.py:764), reached when the
\* handler of the choice has returned
press_enter_to_continue ==
    /\ \/ app_pc = "pause"
       \/ app_pc = "quiz" /\ pc = "idle"
    /\ app_pc' = "menu"
    /\ UNCHANGED <<app_choice, app_generator, quizVars, genVars, storeVars, chunkVars,
                   chatVars>>

\* run() has ended: by its break, or by an exception of a handler or of the quiz
\* run_quiz was running
run_ended ==
    \/ app_pc \in {"exited", "crashed"}
    \/ app_pc = "quiz" /\ pc = "raised"

ReplyMcq == <<SegJson([questions |-> JList(<<JDict(ItemMcq)>>)])>>
ReplyMcqNoLabel == <<SegJson([questions |-> JList(<<JDict(ItemMcqNoLabel)>>)])>>
ReplyNull == <<SegJson([questions |-> JNull])>>

\* the replies the model gives, one after the other, while the application runs
AppReplies ==
    { <<ReplyMcq, ReplyMcq, ReplyMcq>>,
      <<ReplyMcq, <<SegText>>, ReplyNull>>,
      <<<<SegText>>, ReplyMcqNoLabel, LlmError>>,
      <<LlmError, ReplyMcq, ReplyMcqNoLabel>> }

\* what the user types at "Your answer:"
AnswerInputs == {<<>>, Txt_A, <<"b">>, <<"T">>}

\* what the user types at "Topic:"
TopicInputs == {<<" ">>, <<"x">>}
-----------------------------------------------------------------------------
(* Specifications *)

\* the parts of the state a specification does not exercise
RestInit == ChunkInit /\ ChatInit /\ AppInit

QuizNext ==
    \/ \E qs \in SampleQuizzes, name \in QuizNames : run_quiz(qs, name)
    \/ \E raw \in RawInputs : get_answer_again(raw)
    \/ \E raw \in RawInputs : answer_question(raw)

\* one QuizRunner, its run_quiz called again and again
QuizSpecInit == QuizInit /\ GenInit({NoStore}, {<<>>}) /\ StoreInit({EmptyCollection}) /\ RestInit

SpecQuiz == QuizSpecInit /\ [][QuizNext]_vars

GenNext ==
    \/ \E topic \in Topics, embed_ok \in BOOLEAN, ranking \in Rankings(Len(quiz_store.docs)) :
            generate_mcq_questions(topic, embed_ok, ranking)
    \/ \E topic \in Topics, embed_ok \in BOOLEAN, ranking \in Rankings(Len(quiz_store.docs)) :
            generate_true_false_questions(topic, embed_ok, ranking)
    \/ \E topic \in Topics, embed_ok \in BOOLEAN, ranking \in Rankings(Len(quiz_store.docs)) :
            generate_fill_blank_questions(topic, embed_ok, ranking)

\* one QuizGenerator, its generate_*_questions called again and again
GenSpecInit ==
    /\ QuizInit
    /\ GenInit(SampleStores, {<<r>> : r \in Replies \cup {LlmError}})
    /\ StoreInit({EmptyCollection}) /\ RestInit

SpecGen == GenSpecInit /\ [][GenNext]_vars

MixedNext ==
    \E topic \in Topics, num_questions \in (-1)..MaxNumQuestions,
       embed_oks \in [1..3 -> BOOLEAN], ranking \in Rankings(Len(quiz_store.docs)) :
        generate_mixed_quiz(topic, num_questions, embed_oks, ranking)

MixedSpecInit ==
    /\ QuizInit
    /\ GenInit({NoStore, Store(<<Txt_probation, Txt_A>>)}, [1..3 -> MixedReplies])
    /\ StoreInit({EmptyCollection}) /\ RestInit

\* one QuizGenerator, its generate_mixed_quiz called once
SpecMixed == MixedSpecInit /\ [][MixedNext]_vars

RetrieveNext ==
    \/ \E question \in Queries, embed_ok \in BOOLEAN : embed_query(question, embed_ok)
    \/ \E top_k \in 1..MaxK, ranking \in Orderings(collection) : search_chroma(top_k, ranking)
    \/ build_context_of_results
    \/ \E topic \in Queries, k \in 1..MaxK, embed_ok \in BOOLEAN,
          ranking \in Rankings(Len(quiz_store.docs)) :
            call_retrieve_relevant_content(topic, k, embed_ok, ranking)
    \/ \E search_question \in Queries, k \in 1..MaxK, embed_ok \in BOOLEAN,
          ranking \in Orderings(collection) :
            retrieve_docs(search_question, k, embed_ok, ranking)

RetrieveSpecInit ==
    /\ QuizInit
    /\ GenInit(SampleStores, {<<>>})
    /\ StoreInit(SampleCollections)
    /\ RestInit

\* retrieval calls, one after another, over a store and a collection that ingestion left
SpecRetrieve == RetrieveSpecInit /\ [][RetrieveNext]_vars

IngestNext ==
    \/ \E docs \in SampleFolders, fail_at \in 0..3, on_existing \in {"ignore", "raise"} :
            ingest_to_chroma(docs, fail_at, on_existing)
    \/ \E documents \in SampleDocuments, embed_ok \in BOOLEAN :
            create_vector_store(documents, embed_ok)

IngestSpecInit ==
    /\ QuizInit
    /\ GenInit({NoStore}, {<<>>})
    /\ StoreInit({EmptyCollection}) /\ RestInit

\* ingestion runs, one after another, into stores that start empty
SpecIngest == IngestSpecInit /\ [][IngestNext]_vars

ChunkNext ==
    \/ \E text \in ChunkTexts, chunk_size \in 1..MaxChunkSize, overlap \in 0..MaxOverlap :
            chunk_text_begin(text, chunk_size, overlap)
    \/ chunk_text_iterate
    \/ chunk_text_return

ChunkSpecInit ==
    /\ QuizInit
    /\ GenInit({NoStore}, {<<>>})
    /\ StoreInit({EmptyCollection})
    /\ ChunkInit /\ ChatInit /\ AppInit

\* one call of chunk_text; the interpreter keeps running the loop
SpecChunk ==
    /\ ChunkSpecInit
    /\ [][ChunkNext]_vars
    /\ WF_vars(chunk_text_iterate)
    /\ WF_vars(chunk_text_return)

ChatNext ==
    \/ \E user_question \in ChatQuestions, reply \in ChatReplies :
            rewrite_question(user_question, reply)
    \/ \E user_question \in ChatQuestions, rewritten \in ChatReplies, embed_ok \in BOOLEAN,
          ranking \in Orderings(collection), answer \in ChatReplies :
            ask_question(user_question, rewritten, embed_ok, ranking, answer)

ChatSpecInit ==
    /\ QuizInit
    /\ GenInit({NoStore}, {<<>>})
    /\ StoreInit({EmptyCollection, produced_by(<<Doc("a.txt", <<"a", "b">>)>>)})
    /\ ChunkInit /\ ChatInit /\ AppInit

\* one chat: questions asked and rewritten against the growing history
SpecChat == ChatSpecInit /\ [][ChatNext]_vars


AppNext ==
    \/ run_begin
    \/ \E folder_exists \in BOOLEAN, documents \in SampleDocuments \cup {<<>>},
          embed_ok \in BOOLEAN :
            load_notes(folder_exists, documents, embed_ok)
    \* a quiz of one format makes one retrieval, a mixed quiz three
    \/ \E choice \in {"2", "3", "4"}, raw_topic \in TopicInputs, typed \in NumberInputs,
          embed_ok \in BOOLEAN, ranking \in Rankings(Len(quiz_store.docs)) :
            generate_and_run_quiz(choice, raw_topic, typed, [i \in 1..3 |-> embed_ok], ranking)
    \/ \E raw_topic \in TopicInputs, typed \in NumberInputs,
          embed_oks \in [1..3 -> BOOLEAN], ranking \in Rankings(Len(quiz_store.docs)) :
            generate_and_run_quiz("5", raw_topic, typed, embed_oks, ranking)
    \/ view_history
    \/ show_help
    \/ \E choice \in OtherChoices : invalid_choice(choice)
    \/ exit_choice
    \/ press_enter_to_continue
    \/ \E raw \in AnswerInputs : get_answer_again(raw)
    \/ \E raw \in AnswerInputs : answer_question(raw)

AppSpecInit ==
    /\ QuizInit
    /\ GenInit({NoStore, Store(<<Txt_probation, Txt_A>>)}, AppReplies)
    /\ StoreInit({EmptyCollection})
    /\ ChunkInit /\ ChatInit /\ AppInit

\* one QuizApp, its run() called once
SpecApp == AppSpecInit /\ [][AppNext]_vars
-----------------------------------------------------------------------------
(* Properties of the quiz session *)

\* s is `word` in some letter case
InAnyCase(s, word) ==
    /\ Len(s) = Len(word)
    /\ \A i \in 1..Len(word) : s[i] \in {LowerChar(word[i]), UpperChar(word[i])}

\* an input that is valid for the question's type, once the blanks around it are dropped:
\* mcq one of A-D, true_false one of true/t/false/f, in any letter case; fill_blank not empty
ValidInput(q_type, raw) ==
    CASE q_type = "mcq" -> \E w \in {Txt_A, Txt_B, Txt_C, Txt_D} : InAnyCase(Strip(raw), w)
      [] q_type = "true_false" ->
            \E w \in {<<"t","r","u","e">>, <<"t">>, <<"f","a","l","s","e">>, <<"f">>} :
                InAnyCase(Strip(raw), w)
      [] q_type = "fill_blank" -> Strip(raw) # <<>>

CountTrue(bs) == Cardinality({i \in 1..Len(bs) : bs[i]})

\* C1: while a question of type mcq, true_false or fill_blank is asked, an input that is
\* not valid for its type is prompted for again and changes neither the score nor the
\* question asked nor anything graded; the question is graded exactly once, in the step
\* that reads its first valid input, and is not asked again.
C1_InvalidInputNeverCounted ==
    [][ pc = "asking" =>
          LET q_type == questions[idx].type
          IN  /\ q_type \in {"mcq", "true_false", "fill_blank"}
              /\ Len(graded) = idx - 1
              /\ ~ValidInput(q_type, last_input') =>
                    /\ reprompted'
                    /\ pc' = "asking"
                    /\ UNCHANGED <<current_score, total_questions, idx, questions,
                                   graded, quiz_history, ret>>
              /\ ValidInput(q_type, last_input') =>
                    /\ Len(graded') = idx
                    /\ SubSeq(graded', 1, idx - 1) = graded
                    /\ current_score' \in {current_score, current_score + 1}
                    /\ pc' = "asking" => (idx' = idx + 1 /\ ~reprompted')
      ]_vars

\* C1 witness: the second question has refused an input after the first was graded correct
C1_Witness ==
    /\ pc = "asking"
    /\ idx = 2
    /\ reprompted
    /\ ~ValidInput(questions[idx].type, last_input)
    /\ current_score = 1
    /\ graded = <<TRUE>>

\* C2: a run over a non-empty question sequence completes exactly in the step in which
\* its last question is graded, and exactly then one result record is appended to
\* quiz_history; records already in the history are never changed or removed.
C2_CompletesWhenLastGraded ==
    [][ /\ (pc = "asking" /\ Len(graded') = Len(questions) /\ Len(graded) < Len(questions))
           <=> (Len(quiz_history') = Len(quiz_history) + 1 /\ pc = "asking" /\ pc' = "idle")
        /\ Len(quiz_history') >= Len(quiz_history)
        /\ SubSeq(quiz_history', 1, Len(quiz_history)) = quiz_history
        /\ Len(quiz_history') > Len(quiz_history) =>
              quiz_history' = Append(quiz_history, ret')
      ]_vars

\* the tenths nearest to 100 x score / total (a tie to the even tenth)
RoundedTenths(score, total) ==
    CHOOSE t \in 0..1000 :
        /\ 2 * total * t - total <= 2000 * score
        /\ 2000 * score <= 2 * total * t + total
        /\ (2000 * score = 2 * total * t - total \/ 2000 * score = 2 * total * t + total)
              => t % 2 = 0

\* C3 as stated: the result of a completed run has the number of questions graded
\* correct as score, the number of questions as total, and 100 x score / total rounded
\* to one decimal as percentage (66.7 for 2 of 3).
C3_PercentageRounded ==
    (pc = "idle" /\ ret.r = "result") =>
        /\ ret.score = CountTrue(graded)
        /\ ret.total = Len(questions)
        /\ ret.percentage = 1000 * RoundedTenths(ret.score, ret.total)

\* C3 amended: the result of a completed run has the number of questions graded correct
\* as score, the number of questions as total, and the unrounded 100 x score / total as
\* percentage; the percentage printed is that value rounded to one decimal. Three
\* questions answered right, wrong, right give score 2, total 3, percentage 66.66...,
\* printed as 66.7.
C3_ResultOfRun ==
    (pc = "idle" /\ ret.r = "result") =>
        /\ ret.score = CountTrue(graded)
        /\ ret.total = Len(questions)
        /\ ret.total > 0
        /\ ret.percentage * ret.total <= 1000000 * ret.score
        /\ 1000000 * ret.score < (ret.percentage + 1) * ret.total
        /\ printed = RoundedTenths(ret.score, ret.total)
        /\ graded = <<TRUE, FALSE, TRUE>> =>
              /\ ret.score = 2
              /\ ret.total = 3
              /\ ret.percentage = 666666
              /\ printed = 667

\* C3 witness: a run of three questions answered right, wrong, right has returned
C3_Witness ==
    /\ pc = "idle"
    /\ ret.r = "result"
    /\ Len(questions) = 3
    /\ graded = <<TRUE, FALSE, TRUE>>
    /\ quiz_history = <<ret>>

\* C4: a fill_blank question with acceptable_answers accepts an input as correct iff the
\* input, trimmed and lower-cased, equals the lower-cased form of a listed answer; with
\* the answers probation and probationary, "Probation" is accepted and "probat" is not.
C4_FillBlankAccepts ==
    [][ (pc = "asking" /\ questions[idx].type = "fill_blank"
                       /\ HasKey(questions[idx], "acceptable_answers")) =>
          LET listed == questions[idx].acceptable_answers
              matches == \E i \in 1..Len(listed) :
                            Lower(Strip(last_input')) = Lower(listed[i])
          IN  /\ graded' = Append(graded, TRUE) <=> matches
              /\ (~matches /\ Strip(last_input') # <<>>) => graded' = Append(graded, FALSE)
              /\ questions[idx] = QFillExample =>
                    /\ last_input' = Txt_Probation => graded' = Append(graded, TRUE)
                    /\ last_input' = Txt_probat => graded' = Append(graded, FALSE)
      ]_vars

\* C4 witness: "Probation" was accepted for the answers probation and probationary
C4_Witness ==
    /\ questions = <<QFillExample>>
    /\ last_input = Txt_Probation
    /\ graded = <<TRUE>>
    /\ current_score = 1

\* C5: run_quiz called with no questions returns the empty result at once, raises
\* nothing and leaves current_score, total_questions and quiz_history as they were; the
\* percentage is never computed with total_questions = 0.
C5_EmptyQuizIsNoOp ==
    /\ [][ (runs' = runs + 1 /\ questions' = <<>>) =>
              /\ ret' = RetEmpty
              /\ pc' = "idle"
              /\ err' = "none"
              /\ UNCHANGED <<current_score, total_questions, quiz_history, printed>>
         ]_vars
    /\ [](err # "ZeroDivisionError")
    /\ [](pc = "asking" => total_questions > 0)
    /\ [](\A i \in 1..Len(quiz_history) : quiz_history[i].total > 0)

\* C5 witness: an empty run after a completed one, whose score and record are still there
C5_Witness ==
    /\ runs = 2
    /\ ret = RetEmpty
    /\ questions = <<>>
    /\ current_score > 0
    /\ total_questions > 0
    /\ Len(quiz_history) = 1


\* the run in progress, aborted or just completed is a run over questions: run_quiz has
\* passed its gate for an empty quiz
InRun ==
    \/ pc \in {"asking", "raised"}
    \/ pc = "idle" /\ ret.r = "result" /\ questions # <<>>

\* C20: at every point of every quiz run over questions, current_score is the number of
\* questions of that run graded correct so far, and 0 <= current_score <= questions
\* graded <= total_questions; grading a question correct raises it by exactly 1, grading
\* it incorrect and refusing an input leave it as it is, and a run that starts sets it
\* to 0, so the score of a result and of its history record count that run only.
C20_ScoreCountsCurrentRun ==
    /\ [](InRun => /\ current_score = CountTrue(graded)
                   /\ 0 <= current_score
                   /\ current_score <= Len(graded)
                   /\ Len(graded) <= total_questions
                   /\ total_questions = Len(questions))
    /\ [][ pc = "asking" =>
              /\ graded' = Append(graded, TRUE) => current_score' = current_score + 1
              /\ graded' = Append(graded, FALSE) => current_score' = current_score
              /\ graded' = graded => current_score' = current_score
         ]_vars
    /\ [][ (runs' = runs + 1 /\ questions' # <<>>) =>
              /\ current_score' = 0
              /\ graded' = <<>>
              /\ pc' = "asking"
         ]_vars
    /\ []((pc = "idle" /\ ret.r = "result") =>
              /\ ret.score = CountTrue(graded)
              /\ quiz_history[Len(quiz_history)] = ret)

\* C20 witness: the second run on a runner whose first run scored 2 has graded its first
\* question incorrect and stands at 0
C20_Witness ==
    /\ runs = 2
    /\ pc = "asking"
    /\ Len(quiz_history) = 1
    /\ quiz_history[1].score = 2
    /\ graded = <<FALSE>>
    /\ current_score = 0
    /\ idx = 2

\* C21: while a fill_blank question is asked, an input that is the question's own
\* correct_answer in some letter case is graded correct, with an acceptable_answers
\* list on the question and without one.
C21_OwnAnswerIsCorrect ==
    [][ (/\ pc = "asking"
         /\ questions[idx].type = "fill_blank"
         /\ Strip(last_input') # <<>>
         /\ Lower(Strip(last_input')) = Lower(questions[idx].correct_answer.s))
            => graded' = Append(graded, TRUE)
      ]_vars
-----------------------------------------------------------------------------
(* Properties of question generation *)

\* an MCQ item that passes the validation the specification describes
ValidMcqItem(q) ==
    /\ HasKey(q, "options") /\ HasKey(q, "correct_answer")
    /\ Cardinality(DOMAIN q.options) >= 4
    /\ \A a, b \in DOMAIN q.options : a # b => q.options[a] # q.options[b]
    /\ q.correct_answer.k = "str"
    /\ q.correct_answer.s \in DOMAIN q.options

\* the question objects a reply decodes to, << >> when it decodes to none
DecodedItems(content) ==
    IF content = LlmError \/ content = NoReply THEN <<>>
    ELSE LET m == json_match(content)
         IN  IF ~m.matched \/ ~json_loads_ok(m.group) THEN <<>>
             ELSE LET value == result_get_questions(m.group)
                  IN  IF value.k = "list" THEN value.items ELSE <<>>

IsDict(item) == item.k = "dict"

\* C6: generate_mcq_questions returns exactly the valid MCQ items of the reply: each
\* returned item has at least four options, pairwise different option texts and a
\* correct label that names one of its options; invalid items are dropped and valid
\* ones kept.
C6_McqItemsValidated ==
    (/\ gen_out.fn = "generate_mcq_questions"
     /\ gen_out.response \notin {NoReply, LlmError}
     /\ gen_out.result.out = "return"
     /\ gen_out.result.value.k = "list")
        => /\ \A i \in 1..Len(gen_out.result.value.items) :
                  ValidMcqItem(gen_out.result.value.items[i])
           /\ LET decoded == SelectSeq(DecodedItems(gen_out.response), IsDict)
                  plain == [i \in 1..Len(decoded) |-> decoded[i].d]
              IN  gen_out.result.value.items
                      = [i \in 1..Len(SelectSeq(plain, ValidMcqItem)) |->
                            set_type(SelectSeq(plain, ValidMcqItem)[i], "mcq")]

\* a reply that holds no span, or a span that does not decode, or one that decodes to
\* something other than an object holding a list of question objects
Malformed(content) ==
    LET m == json_match(content)
    IN  \/ ~m.matched
        \/ ~json_loads_ok(m.group)
        \/ LET value == result_get_questions(m.group)
           IN  \/ value.k # "list"
               \/ \E i \in 1..Len(value.items) : value.items[i].k # "dict"

\* C7: whatever the model replies, a generate_*_questions call returns a list and does
\* not raise; for a malformed reply the list is empty.
C7_NeverRaisesOnReply ==
    (gen_out.fn # "none" /\ gen_out.response \notin {NoReply, LlmError})
        => /\ gen_out.result.out = "return"
           /\ gen_out.result.value.k = "list"
           /\ Malformed(gen_out.response) => gen_out.result.value.items = <<>>

\* C8: generate_mixed_quiz asked for 5 questions asks for 2 MCQ, 1 true/false and 2
\* fill-in-the-blank; asked for 3 or more, each count is at least 1 and the three sum
\* to the number asked for.
C8_MixedSplit ==
    mixed_out.fn = "generate_mixed_quiz"
        => /\ mixed_out.num_questions = 5
                => <<mixed_out.num_mcq, mixed_out.num_tf, mixed_out.num_fill>> = <<2, 1, 2>>
           /\ mixed_out.num_questions >= 3
                => /\ mixed_out.num_mcq >= 1
                   /\ mixed_out.num_tf >= 1
                   /\ mixed_out.num_fill >= 1
                   /\ mixed_out.num_mcq + mixed_out.num_tf + mixed_out.num_fill
                          = mixed_out.num_questions

\* a mixed quiz of 5 that returned the questions of its three parts
C8_Witness ==
    /\ mixed_out.fn = "generate_mixed_quiz"
    /\ mixed_out.num_questions = 5
    /\ mixed_out.result.out = "return"
    /\ Len(mixed_out.result.value.items) = 3


\* how often x stands in the sequence s
Occurrences(s, x) == Cardinality({i \in 1..Len(s) : s[i] = x})

\* t holds the elements of s, each as often as s does
IsPermutation(s, t) ==
    /\ Len(s) = Len(t)
    /\ \A i \in 1..Len(s) : Occurrences(t, s[i]) = Occurrences(s, s[i])

\* the questions a format contributed
part_items(result) ==
    IF result.out = "return" /\ result.value.k = "list" THEN result.value.items ELSE <<>>

\* C19: a generate_mixed_quiz call in which no backend call failed returns a list that
\* is a permutation of the three per-format results put one after the other, and a
\* format whose model output was malformed contributes no questions while the call
\* still returns the questions of the other formats.
C19_MixedQuizSurvivesMalformedPart ==
    (/\ mixed_out.fn = "generate_mixed_quiz"
     /\ \A i \in 1..Len(mixed_out.parts) :
           mixed_out.parts[i].out = "raise" => mixed_out.parts[i].exc # "RemoteCallError")
        => /\ Len(mixed_out.parts) = 3
           /\ mixed_out.result.out = "return"
           /\ mixed_out.result.value.k = "list"
           /\ IsPermutation(part_items(mixed_out.parts[1]) \o part_items(mixed_out.parts[2])
                                \o part_items(mixed_out.parts[3]),
                            mixed_out.result.value.items)
           /\ \A i \in 1..3 :
                 (mixed_out.responses[i] # NoReply /\ Malformed(mixed_out.responses[i]))
                    => part_items(mixed_out.parts[i]) = <<>>

\* C22: generate_mixed_quiz asked for 1 question or more (1 and 2 among them) asks each
\* format for a count that is not negative, and the three counts sum to the number
\* asked for.
C22_MixedCountsNotNegative ==
    (mixed_out.fn = "generate_mixed_quiz" /\ mixed_out.num_questions >= 1)
        => /\ mixed_out.num_mcq >= 0
           /\ mixed_out.num_tf >= 0
           /\ mixed_out.num_fill >= 0
           /\ mixed_out.num_mcq + mixed_out.num_tf + mixed_out.num_fill
                  = mixed_out.num_questions
-----------------------------------------------------------------------------
(* Properties of retrieval and ingestion *)

\* C9: at every retrieval entry point, a query text that is empty or only whitespace
\* fails with the empty-query error, and no embedding call and no index query is made.
C9_EmptyQueryFailsBeforeRemoteCalls ==
    (retr_out.fn # "none" /\ Strip(retr_out.query) = <<>>)
        => /\ retr_out.out = "raise"
           /\ retr_out.exc = "ValueError"
           /\ retr_out.embeds = 0
           /\ retr_out.queries = 0

\* C10: after an ingestion run that went through, the store it wrote holds exactly what
\* that run produced: every id with the text, vector and metadata of that run, and no
\* id left from an earlier run.
C10_CollectionIsLastRun ==
    /\ (ingest_out.fn = "ingest_to_chroma" /\ ingest_out.out = "return")
            => collection = ingest_out.produced
    /\ (ingest_out.fn = "create_vector_store" /\ ingest_out.out = "return")
            => quiz_store = Store(ingest_out.produced)

\* a retrieval with a non-empty query against an index that holds nothing
EmptyIndexCall ==
    /\ retr_out.fn \in {"search_chroma", "build_context", "retrieve_relevant_content"}
    /\ Strip(retr_out.query) # <<>>
    /\ IF retr_out.fn = "retrieve_relevant_content"
       THEN generator_db = "None" \/ quiz_store.docs = <<>>
       ELSE collection = EmptyCollection

\* an empty retrieval result, an empty context
EmptyValue(value) ==
    \/ value = <<>>
    \/ value = [documents |-> <<>>, metadatas |-> <<>>, distances |-> <<>>]

-----------------------------------------------------------------------------
(* Properties of chunk_text *)

\* C11: a call of chunk_text with overlap >= chunk_size fails with a configuration
\* error, whatever the text: it never enters the loop and never returns chunks.
C11_BadOverlapRejected ==
    (ck_pc # "idle" /\ ck_overlap >= ck_chunk_size) => ck_pc = "raised"

CeilDiv(a, b) == (a + b - 1) \div b

\* C12: with chunk_size > overlap >= 0 the loop of chunk_text makes at most
\* ceil(len(text) / (chunk_size - overlap)) + 1 iterations, an iteration that is
\* followed by another one has moved start forward, and the call returns.
C12_LoopTerminates ==
    /\ [](ck_chunk_size > ck_overlap
            => ck_iters <= CeilDiv(Len(ck_text), ck_chunk_size - ck_overlap) + 1)
    /\ [][(ck_chunk_size > ck_overlap /\ ck_pc = "loop" /\ ck_pc' = "loop"
           /\ ck_start' < Len(ck_text))
              => ck_start' > ck_start]_vars
    /\ ((ck_pc = "loop" /\ ck_chunk_size > ck_overlap) ~> ck_pc = "returned")

\* a call with chunk_size > overlap > 0 that returned after several iterations
C12_Witness ==
    /\ ck_pc = "returned"
    /\ ck_chunk_size > ck_overlap
    /\ ck_overlap > 0
    /\ ck_iters >= 3

RECURSIVE DropOverlaps(_, _)
\* the chunks after the first, each without its first `overlap` characters, joined
DropOverlaps(chunks, overlap) ==
    IF chunks = <<>> THEN <<>>
    ELSE SubSeq(Head(chunks), overlap + 1, Len(Head(chunks)))
            \o DropOverlaps(Tail(chunks), overlap)

Reconstructed(chunks, overlap) ==
    IF chunks = <<>> THEN <<>> ELSE Head(chunks) \o DropOverlaps(Tail(chunks), overlap)

\* C13: with chunk_size > overlap >= 0 the returned chunks cover the text without gaps:
\* the first chunk followed by every later chunk without its first overlap characters is
\* the original text.
C13_ChunksCoverText ==
    (ck_pc = "returned" /\ ck_chunk_size > ck_overlap)
        => Reconstructed(ck_chunks, ck_overlap) = ck_text

-----------------------------------------------------------------------------
(* Properties of rewrite_question *)

\* C16: rewrite_question called while the history is empty returns the latest question
\* unchanged and sends no prompt to the model.
C16_EmptyHistoryNoRewrite ==
    (rewrite_out.fn = "rewrite_question" /\ rewrite_out.history = <<>>)
        => /\ rewrite_out.out = "return"
           /\ rewrite_out.value = rewrite_out.question
           /\ rewrite_out.prompts = <<>>

\* a question with blanks around it went through unchanged
C16_Witness ==
    /\ rewrite_out.fn = "rewrite_question"
    /\ rewrite_out.history = <<>>
    /\ rewrite_out.value = <<" ", "q", " ">>

IsPrefix(s, t) == Len(s) <= Len(t) /\ SubSeq(t, 1, Len(s)) = s

\* C17: rewrite_question called with a non-empty history sends exactly one prompt; after
\* the instructions it holds the last min(8, len(history)) messages in their order, then
\* the latest question; no message of the history is dropped from chat_history.
C17_PromptHoldsLastTurns ==
    (rewrite_out.fn = "rewrite_question" /\ rewrite_out.history # <<>>)
        => LET history == rewrite_out.history
               count == IF Len(history) < 8 THEN Len(history) ELSE 8
           IN  /\ Len(rewrite_out.prompts) = 1
               /\ LET prompt == rewrite_out.prompts[1]
                  IN  /\ Len(prompt) = count + 2
                      /\ prompt[1].role = "system"
                      /\ \A i \in 1..count :
                            prompt[1 + i] = history[Len(history) - count + i]
                      /\ prompt[count + 2]
                            = HumanMessage(<<"Latest user question: ">> \o rewrite_out.question)
               /\ IsPrefix(history, chat_history)

\* a rewrite against a history of more than 8 messages
C17_Witness ==
    /\ rewrite_out.fn = "rewrite_question"
    /\ Len(rewrite_out.history) > 8
    /\ rewrite_out.out = "return"
    /\ chat_history = rewrite_out.history


\* C24: a step that completes an ask_question appends to chat_history one user turn
\* with the question as it was asked (not as it was rewritten) and after it one
\* assistant turn with the answer returned; an ask_question that raises, in rewriting,
\* retrieval or answering, and a rewrite_question called alone leave chat_history as it
\* is; no step changes or removes a turn. So the history always has an even number of
\* turns, user and assistant in turn, two for each completed exchange.
C24_HistoryGrowsByExchanges ==
    /\ [][ /\ IsPrefix(chat_history, chat_history')
           /\ (asks' = asks + 1 /\ ask_out'.out = "return")
                 => chat_history' = chat_history \o <<HumanMessage(ask_out'.question),
                                                      AIMessage(ask_out'.value)>>
           /\ (asks' = asks + 1 /\ ask_out'.out = "raise")
                 => chat_history' = chat_history
           /\ asks' = asks => chat_history' = chat_history
         ]_vars
    /\ [](/\ Len(chat_history) % 2 = 0
          /\ Len(chat_history) <= 2 * asks
          /\ \A i \in 1..Len(chat_history) :
                chat_history[i].role = IF i % 2 = 1 THEN "human" ELSE "ai")

\* three questions were asked, one of them failed, and the last was answered after it
\* was rewritten: the history holds four turns, the third the question as asked
C24_Witness ==
    /\ asks = 3
    /\ Len(chat_history) = 4
    /\ ask_out.out = "return"
    /\ ask_out.search_question # ask_out.question
    /\ chat_history[3] = HumanMessage(ask_out.question)
    /\ chat_history[4] = AIMessage(ask_out.value)
-----------------------------------------------------------------------------
(* Properties of the batch loop of ingest_to_chroma *)

RECURSIVE batch_ids_upto(_, _)
\* the ids of the first b collection.add calls, one after the other
batch_ids_upto(adds, b) ==
    IF b = 0 THEN <<>> ELSE batch_ids_upto(adds, b - 1) \o adds[b].ids

\* the places (batch, position) at which an id was handed to the index
places_of(adds, id) ==
    {p \in UNION {{<<b, j>> : j \in 1..Len(adds[b].ids)} : b \in 1..Len(adds)} :
        adds[p[1]].ids[p[2]] = id}

\* C18: the collection.add calls of an ingest_to_chroma run carry between 1 and 64
\* entries each, their ids put one after the other are the chunk ids of the run in
\* their original order (all of them when the run went through, a leading part when a
\* call failed), every chunk of a run that went through is in exactly one batch, and
\* at each position of a batch the id, the text, the metadata and the embedding are
\* those of one chunk.
C18_BatchesPartitionChunks ==
    ingest_out.fn = "ingest_to_chroma"
        => LET adds == ingest_out.adds
               ids == ingest_out.ids
               handed == batch_ids_upto(adds, Len(adds))
           IN  /\ \A b \in 1..Len(adds) :
                     /\ Len(adds[b].ids) \in 1..batch_size
                     /\ Len(adds[b].documents) = Len(adds[b].ids)
                     /\ Len(adds[b].metadatas) = Len(adds[b].ids)
                     /\ Len(adds[b].embeddings) = Len(adds[b].ids)
                     /\ b < Len(adds) => Len(adds[b].ids) = batch_size
               /\ IsPrefix(handed, ids)
               /\ ingest_out.out = "return"
                     => /\ handed = ids
                        /\ \A i \in 1..Len(ids) : Cardinality(places_of(adds, ids[i])) = 1
               /\ \A b \in 1..Len(adds) : \A j \in 1..Len(adds[b].ids) :
                     LET chunk == ingest_out.produced[adds[b].ids[j]]
                     IN  /\ adds[b].documents[j] = chunk.document
                         /\ adds[b].metadatas[j] = chunk.metadata
                         /\ adds[b].embeddings[j] = chunk.embedding

\* a run over more than two batches' worth of chunks went through: two full batches
\* and a last one that is shorter
C18_Witness ==
    /\ ingest_out.fn = "ingest_to_chroma"
    /\ ingest_out.out = "return"
    /\ Len(ingest_out.adds) = 3
    /\ Len(ingest_out.adds[3].ids) < batch_size
    /\ Len(ingest_out.ids) = 2 * batch_size + 1

\* the ids of the chunks of the batches 1..n of the last run
ids_of_batches(n) ==
    {ingest_out.ids[i] : i \in 1..Min(n * batch_size, Len(ingest_out.ids))}

\* C23: when the embedding call of batch j has failed in ingest_to_chroma, the run has
\* ended with that error after one embedding call for batch j and j - 1 collection.add
\* calls, and the collection holds exactly the chunks of the batches 1..j-1 of the run,
\* as the run produced them: no chunk of batch j or of a later batch, and nothing else.
C23_FailedBatchLeavesEarlierBatches ==
    (/\ ingest_out.fn = "ingest_to_chroma"
     /\ ingest_out.out = "raise"
     /\ ingest_out.exc = "RemoteCallError")
        => LET j == ingest_out.embeds
           IN  /\ Len(ingest_out.adds) = j - 1
               /\ DOMAIN collection = ids_of_batches(j - 1)
               /\ \A id \in ids_of_batches(j - 1) : collection[id] = ingest_out.produced[id]
-----------------------------------------------------------------------------
(* Properties of QuizApp.run *)

\* C15: run() ends only by the exit choice: whenever it has ended, the choice read last
\* was 8; no other choice ends it, not a load and not a quiz generation whose embedding
\* or model call fails.
C15_EndsOnlyOnExitChoice ==
    run_ended => (app_choice = "8" /\ app_pc = "exited")

\* C25: while the application has no generator, no quiz has been generated or run in
\* it; a quiz choice read then goes back to the loop with the runner, the generator's
\* state, the model's replies and the stores untouched; the generator gets set only by
\* run() finding a persisted store when it starts, or by a load_notes that built a store
\* from one document or more; and a load_notes that builds no store (no notes folder,
\* no valid notes) leaves the generator and the store as they are.
C25_NoQuizWithoutGenerator ==
    /\ [](app_generator = "None"
            => /\ pc = "idle" /\ runs = 0 /\ app_pc # "quiz"
               /\ gen_out = NoCall /\ mixed_out = NoCall)
    /\ [][ (app_pc = "menu" /\ app_generator = "None" /\ app_choice' \in DOMAIN QuizTypes)
              => /\ app_pc' = "pause"
                 /\ UNCHANGED <<app_generator, quizVars, genVars, storeVars>>
         ]_vars
    /\ [][ app_generator' # app_generator
              => /\ app_generator' = "QuizGenerator"
                 /\ \/ app_pc = "start" /\ quiz_store.exists /\ UNCHANGED quiz_store
                    \/ /\ app_pc = "menu" /\ app_choice' = "1"
                       /\ ingest_out'.fn = "create_vector_store"
                       /\ ingest_out'.out = "return"
                       /\ Len(ingest_out'.produced) >= 1
                       /\ quiz_store' = Store(ingest_out'.produced)
         ]_vars
    /\ [][ (app_pc = "menu" /\ app_choice' = "1")
              => IF ingests' = ingests
                 THEN /\ app_pc' = "pause"
                      /\ UNCHANGED <<app_generator, quiz_store, generator_db, ingest_out>>
                 ELSE ingest_out'.produced # <<>>
         ]_vars

\* a quiz choice was read while no generator was set, after run() had started without a
\* persisted store: nothing was generated and nothing run
C25_Witness ==
    /\ app_generator = "None"
    /\ app_choice \in DOMAIN QuizTypes
    /\ app_pc = "pause"
    /\ ~quiz_store.exists
    /\ gen_out = NoCall
    /\ mixed_out = NoCall
    /\ runs = 0
    /\ Len(llm_replies) = 3
=============================================================================
